---- MODULE Spec2Model ----
(***************************************************************************)
(* Bitboard position model (bitboard.py) and negascout search driver       *)
(* (search.py) of the static evaluation engine.                            *)
(*                                                                         *)
(* A bitboard is modelled as the set of the indices of its set bits; all   *)
(* arithmetic on squares follows Python (floor division, floor modulo,     *)
(* negative list indices count from the end, 1 << n raises for n < 0).     *)
(***************************************************************************)
EXTENDS Integers, Sequences, FiniteSets, TLC

----------------------------------------------------------------------------
(* Enumerations                                                            *)

WHITE == 0
BLACK == 1
PAWN == 0
KNIGHT == 1
BISHOP == 2
ROOK == 3
QUEEN == 4
KING == 5
\* Python's None, for optional squares and optional piece types
NONE == 0 - 100

Colors == {WHITE, BLACK}
PieceType == <<PAWN, KNIGHT, BISHOP, ROOK, QUEEN, KING>>

Opp(color) == IF color = WHITE THEN BLACK ELSE WHITE

Min(S) == CHOOSE x \in S : \A y \in S : x <= y
Max(S) == CHOOSE x \in S : \A y \in S : x >= y

RECURSIVE Asc(_)
\* the elements of a set of integers in ascending order
Asc(S) == IF S = {} THEN <<>> ELSE LET m == Min(S) IN <<m>> \o Asc(S \ {m})

----------------------------------------------------------------------------
(* Move                                                                    *)

Move(from_square, to_square, promotion, is_castling, is_en_passant) ==
    [from_square |-> from_square, to_square |-> to_square,
     promotion |-> promotion, is_castling |-> is_castling,
     is_en_passant |-> is_en_passant]

\* Move.__eq__ : from + to + promotion only
MoveEq(m1, m2) ==
    /\ m1.from_square = m2.from_square
    /\ m1.to_square = m2.to_square
    /\ m1.promotion = m2.promotion

----------------------------------------------------------------------------
(* BitboardUtils                                                           *)

\* pop_lsb: lsb = bitboard & -bitboard is the lowest set bit 2^l;
\* (lsb - 1).bit_length() - 1 is l - 1
pop_lsb(bitboard) ==
    IF bitboard = {} THEN <<{}, 0 - 1>>
    ELSE LET l == Min(bitboard) IN <<bitboard \ {l}, l - 1>>

RECURSIVE PopAll(_)
\* the squares a "while bb: bb, square = pop_lsb(bb)" loop visits, in order
PopAll(bitboard) ==
    IF bitboard = {} THEN <<>>
    ELSE LET r == pop_lsb(bitboard) IN <<r[2]>> \o PopAll(r[1])

\* (bitboard - 1).bit_length() - 1 for a non-zero bitboard
KingSquareOf(bitboard) ==
    IF Cardinality(bitboard) >= 2 THEN Max(bitboard) ELSE Min(bitboard) - 1

\* Python list index: a negative index counts from the end of a 64-entry table
PyIndex(square) == IF square < 0 THEN square + 64 ELSE square

FileOf(square) == square % 8
RankOf(square) == square \div 8
InBoard(file, rank) == file >= 0 /\ file <= 7 /\ rank >= 0 /\ rank <= 7

----------------------------------------------------------------------------
(* AttackTables                                                            *)

knight_deltas == <<<<0-2, 0-1>>, <<0-2, 1>>, <<0-1, 0-2>>, <<0-1, 2>>,
                   <<1, 0-2>>, <<1, 2>>, <<2, 0-1>>, <<2, 1>>>>
king_deltas == <<<<0-1, 0-1>>, <<0-1, 0>>, <<0-1, 1>>, <<0, 0-1>>,
                 <<0, 1>>, <<1, 0-1>>, <<1, 0>>, <<1, 1>>>>

LeaperTable(deltas) ==
    [square \in 0..63 |->
        {(RankOf(square) + deltas[i][2]) * 8 + FileOf(square) + deltas[i][1] :
            i \in {j \in 1..Len(deltas) :
                     InBoard(FileOf(square) + deltas[j][1],
                             RankOf(square) + deltas[j][2])}}]

PawnTable(color) ==
    [square \in 0..63 |->
        LET file == FileOf(square)
            rank == RankOf(square)
            ahead == IF color = WHITE THEN rank + 1 ELSE rank - 1
            open == IF color = WHITE THEN rank < 7 ELSE rank > 0
        IN  (IF open /\ file > 0 THEN {ahead * 8 + file - 1} ELSE {})
            \cup (IF open /\ file < 7 THEN {ahead * 8 + file + 1} ELSE {})]

knight_attacks == LeaperTable(knight_deltas)
king_attacks == LeaperTable(king_deltas)
pawn_attacks == <<PawnTable(WHITE), PawnTable(BLACK)>>

----------------------------------------------------------------------------
(* Sliding rays                                                            *)

straight_directions == <<<<0, 1>>, <<0, 0-1>>, <<1, 0>>, <<0-1, 0>>>>
diagonal_directions == <<<<1, 1>>, <<1, 0-1>>, <<0-1, 1>>, <<0-1, 0-1>>>>

RECURSIVE RaySquares(_, _, _, _, _)
\* the target squares of "for dist in range(1, 8)" until the ray leaves the board
RaySquares(file, rank, df, dr, dist) ==
    IF dist > 7 \/ ~InBoard(file + df * dist, rank + dr * dist) THEN <<>>
    ELSE <<(rank + dr * dist) * 8 + file + df * dist>>
         \o RaySquares(file, rank, df, dr, dist + 1)

RayTable(directions) ==
    [square \in (0-1)..63 |->
        [d \in 1..4 |-> RaySquares(FileOf(square), RankOf(square),
                                   directions[d][1], directions[d][2], 1)]]

straight_rays == RayTable(straight_directions)
diagonal_rays == RayTable(diagonal_directions)

----------------------------------------------------------------------------
(* Board: a record of the object's fields.  raised is TRUE once a Python   *)
(* exception has propagated out of an operation on the board.              *)

NoPieces == [color \in Colors |-> [piece_type \in 0..5 |-> {}]]

set_piece(pieces, square, piece_type, color) ==
    [pieces EXCEPT ![color][piece_type] = @ \cup {square}]

remove_piece(pieces, square, piece_type, color) ==
    [pieces EXCEPT ![color][piece_type] = @ \ {square}]

NoPiece == [piece_type |-> NONE, color |-> NONE]

\* get_piece_at for square >= 0: the first bitboard, white before black and
\* pawn to king, that has the bit set.  (1 << square raises for square < 0.)
get_piece_at(board, square) ==
    LET hits == {k \in 0..11 : square \in board.pieces[k \div 6][k % 6]}
        first == Min(hits)
    IN  IF hits = {} THEN NoPiece
        ELSE [piece_type |-> first % 6, color |-> first \div 6]

ColorUnion(pieces, color) == UNION {pieces[color][piece_type] : piece_type \in 0..5}

update_occupancy(board) ==
    LET white == ColorUnion(board.pieces, WHITE)
        black == ColorUnion(board.pieces, BLACK)
    IN  [board EXCEPT !.color_occupancy = [color \in Colors |->
                                              IF color = WHITE THEN white ELSE black],
                      !.all_occupancy = white \cup black]

RECURSIVE RayWalk(_, _, _)
\* the squares of a ray up to and including the first occupied one
RayWalk(ray, i, occupancy) ==
    IF i > Len(ray) THEN {}
    ELSE IF ray[i] \in occupancy THEN {ray[i]}
    ELSE {ray[i]} \cup RayWalk(ray, i + 1, occupancy)

get_sliding_attacks(board, square) ==
    UNION {RayWalk(straight_rays[square][d], 1, board.all_occupancy) : d \in 1..4}
    \cup UNION {RayWalk(diagonal_rays[square][d], 1, board.all_occupancy) : d \in 1..4}

is_square_attacked(board, square, by_color) ==
    LET enemy_color == Opp(by_color)
        mine == board.pieces[by_color]
    IN  \/ pawn_attacks[enemy_color + 1][PyIndex(square)] \cap mine[PAWN] # {}
        \/ knight_attacks[PyIndex(square)] \cap mine[KNIGHT] # {}
        \/ king_attacks[PyIndex(square)] \cap mine[KING] # {}
        \/ get_sliding_attacks(board, square)
             \cap (mine[BISHOP] \cup mine[ROOK] \cup mine[QUEEN]) # {}

is_in_check(board, color) ==
    LET king_bitboard == board.pieces[color][KING]
    IN  IF king_bitboard = {} THEN FALSE
        ELSE is_square_attacked(board, KingSquareOf(king_bitboard), Opp(color))

----------------------------------------------------------------------------
(* Pseudo-legal move generation                                            *)

promotion_pieces == <<QUEEN, ROOK, BISHOP, KNIGHT>>

PlainMove(from_square, to_square) == Move(from_square, to_square, NONE, FALSE, FALSE)

PromotionMoves(from_square, to_square) ==
    [i \in 1..4 |-> Move(from_square, to_square, promotion_pieces[i], FALSE, FALSE)]

PawnCaptureMoves(board, square, file_offset) ==
    LET file == FileOf(square)
        rank == RankOf(square)
        direction == IF board.to_move = WHITE THEN 1 ELSE 0 - 1
        promotion_rank == IF board.to_move = WHITE THEN 7 ELSE 0
        enemy_color == Opp(board.to_move)
        target_file == file + file_offset
        target_rank == rank + direction
        target_square == target_rank * 8 + target_file
    IN  IF ~InBoard(target_file, target_rank) THEN <<>>
        ELSE (IF target_square \in board.color_occupancy[enemy_color]
              THEN IF target_rank = promotion_rank
                   THEN PromotionMoves(square, target_square)
                   ELSE <<PlainMove(square, target_square)>>
              ELSE <<>>)
             \o
             \* "if self.en_passant_square and ..." : None and 0 are both falsy
             (IF board.en_passant_square # NONE /\ board.en_passant_square # 0
                 /\ target_square = board.en_passant_square
              THEN <<Move(square, target_square, NONE, FALSE, TRUE)>>
              ELSE <<>>)

generate_pawn_moves(board, square) ==
    LET file == FileOf(square)
        rank == RankOf(square)
        direction == IF board.to_move = WHITE THEN 1 ELSE 0 - 1
        start_rank == IF board.to_move = WHITE THEN 1 ELSE 6
        promotion_rank == IF board.to_move = WHITE THEN 7 ELSE 0
        target_rank == rank + direction
        target_square == target_rank * 8 + file
        double_target == (target_rank + direction) * 8 + file
        forward ==
            IF target_rank >= 0 /\ target_rank <= 7
               /\ target_square \notin board.all_occupancy
            THEN (IF target_rank = promotion_rank
                  THEN PromotionMoves(square, target_square)
                  ELSE <<PlainMove(square, target_square)>>)
                 \o (IF rank = start_rank /\ double_target \notin board.all_occupancy
                     THEN <<PlainMove(square, double_target)>>
                     ELSE <<>>)
            ELSE <<>>
    IN  forward \o PawnCaptureMoves(board, square, 0 - 1)
                \o PawnCaptureMoves(board, square, 1)

\* one Move per set bit of attacks, the target taken from pop_lsb
LeaperMoves(square, attacks) ==
    LET targets == PopAll(attacks)
    IN  [i \in 1..Len(targets) |-> PlainMove(square, targets[i])]

generate_knight_moves(board, square) ==
    LeaperMoves(square, knight_attacks[PyIndex(square)]
                          \ board.color_occupancy[board.to_move])

CastlingMoves(board, square) ==
    LET enemy == Opp(board.to_move)
        kingside == IF board.to_move = WHITE THEN 6 ELSE 62
        queenside == IF board.to_move = WHITE THEN 2 ELSE 58
        base == IF board.to_move = WHITE THEN 0 ELSE 56
        right_k == IF board.to_move = WHITE THEN board.castling_rights.K
                   ELSE board.castling_rights.k
        right_q == IF board.to_move = WHITE THEN board.castling_rights.Q
                   ELSE board.castling_rights.q
    IN  IF is_in_check(board, board.to_move) THEN <<>>
        ELSE (IF right_k
                 /\ board.all_occupancy \cap {base + 5, base + 6} = {}
                 /\ ~is_square_attacked(board, base + 5, enemy)
                 /\ ~is_square_attacked(board, base + 6, enemy)
              THEN <<Move(square, kingside, NONE, TRUE, FALSE)>> ELSE <<>>)
             \o
             (IF right_q
                 /\ board.all_occupancy \cap {base + 1, base + 2, base + 3} = {}
                 /\ ~is_square_attacked(board, base + 3, enemy)
                 /\ ~is_square_attacked(board, base + 2, enemy)
              THEN <<Move(square, queenside, NONE, TRUE, FALSE)>> ELSE <<>>)

generate_king_moves(board, square) ==
    LeaperMoves(square, king_attacks[PyIndex(square)]
                          \ board.color_occupancy[board.to_move])
    \o CastlingMoves(board, square)

RECURSIVE RayMoves(_, _, _, _)
\* one ray of _generate_sliding_moves: stop before a friendly piece, stop
\* after an occupied square
RayMoves(board, square, ray, i) ==
    IF i > Len(ray) \/ ray[i] \in board.color_occupancy[board.to_move] THEN <<>>
    ELSE IF ray[i] \in board.all_occupancy THEN <<PlainMove(square, ray[i])>>
    ELSE <<PlainMove(square, ray[i])>> \o RayMoves(board, square, ray, i + 1)

FourRays(board, square, rays) ==
    RayMoves(board, square, rays[square][1], 1)
    \o RayMoves(board, square, rays[square][2], 1)
    \o RayMoves(board, square, rays[square][3], 1)
    \o RayMoves(board, square, rays[square][4], 1)

generate_sliding_moves(board, square, piece_type) ==
    (IF piece_type \in {ROOK, QUEEN}
     THEN FourRays(board, square, straight_rays) ELSE <<>>)
    \o (IF piece_type \in {BISHOP, QUEEN}
        THEN FourRays(board, square, diagonal_rays) ELSE <<>>)

generate_piece_moves(board, square, piece_type) ==
    CASE piece_type = PAWN -> generate_pawn_moves(board, square)
      [] piece_type = KNIGHT -> generate_knight_moves(board, square)
      [] piece_type = KING -> generate_king_moves(board, square)
      [] OTHER -> generate_sliding_moves(board, square, piece_type)

RECURSIVE MovesOfSquares(_, _, _, _)
MovesOfSquares(board, squares, piece_type, i) ==
    IF i > Len(squares) THEN <<>>
    ELSE generate_piece_moves(board, squares[i], piece_type[i])
         \o MovesOfSquares(board, squares, piece_type, i + 1)

MovesOfType(board, piece_type) ==
    [i \in 1..Cardinality(board.pieces[board.to_move][piece_type]) |-> piece_type]

generate_pseudo_legal_moves(board) ==
    LET Squares(piece_type) == PopAll(board.pieces[board.to_move][piece_type])
    IN  MovesOfSquares(board,
            Squares(PAWN) \o Squares(KNIGHT) \o Squares(BISHOP)
            \o Squares(ROOK) \o Squares(QUEEN) \o Squares(KING),
            MovesOfType(board, PAWN) \o MovesOfType(board, KNIGHT)
            \o MovesOfType(board, BISHOP) \o MovesOfType(board, ROOK)
            \o MovesOfType(board, QUEEN) \o MovesOfType(board, KING),
            1)

----------------------------------------------------------------------------
(* Applying a move                                                         *)

Raise(board) == [board EXCEPT !.raised = TRUE]

\* _handle_castling: the king bit is cleared on move.from_square, the rook
\* bit on its corner; colour is the side to move
handle_castling(board, move) ==
    LET color == board.to_move
        is_kingside == move.to_square = 6 \/ move.to_square = 62
        rook_from == IF is_kingside THEN (IF color = WHITE THEN 7 ELSE 63)
                     ELSE (IF color = WHITE THEN 0 ELSE 56)
        rook_to == IF is_kingside THEN (IF color = WHITE THEN 5 ELSE 61)
                   ELSE (IF color = WHITE THEN 3 ELSE 59)
        p1 == remove_piece(board.pieces, move.from_square, KING, color)
        p2 == remove_piece(p1, rook_from, ROOK, color)
        p3 == set_piece(p2, move.to_square, KING, color)
    IN  [board EXCEPT !.pieces = set_piece(p3, rook_to, ROOK, color)]

\* _handle_en_passant: clear_bit on a negative captured square raises after
\* the capturing pawn has been moved
handle_en_passant(board, move) ==
    LET color == board.to_move
        enemy_color == Opp(color)
        p1 == remove_piece(board.pieces, move.from_square, PAWN, color)
        p2 == set_piece(p1, move.to_square, PAWN, color)
        captured_pawn_square == IF color = WHITE THEN move.to_square - 8
                                ELSE move.to_square + 8
    IN  IF captured_pawn_square < 0
        THEN Raise([board EXCEPT !.pieces = p2])
        ELSE [board EXCEPT !.pieces =
                 remove_piece(p2, captured_pawn_square, PAWN, enemy_color)]

NormalMove(board, move, moving, captured) ==
    LET p1 == remove_piece(board.pieces, move.from_square,
                           moving.piece_type, moving.color)
        p2 == IF captured # NoPiece
              THEN remove_piece(p1, move.to_square, captured.piece_type, captured.color)
              ELSE p1
        placed == IF move.promotion # NONE THEN move.promotion ELSE moving.piece_type
    IN  [board EXCEPT !.pieces = set_piece(p2, move.to_square, placed, moving.color)]

\* an update that grants every right anew on each move
update_castling_rights_granting(rights, move, piece_type, color, captured_type) ==
    [K |-> TRUE, Q |-> TRUE, k |-> TRUE, q |-> TRUE]

\* move.captured_piece at the time the rights are updated: the type found on
\* the target square, or PAWN after an en-passant capture
update_castling_rights(rights, move, piece_type, color, captured_type) ==
    LET r1 == IF piece_type = KING
              THEN IF color = WHITE THEN [rights EXCEPT !.K = FALSE, !.Q = FALSE]
                   ELSE [rights EXCEPT !.k = FALSE, !.q = FALSE]
              ELSE IF piece_type = ROOK
              THEN IF color = WHITE
                   THEN IF move.from_square = 0 THEN [rights EXCEPT !.Q = FALSE]
                        ELSE IF move.from_square = 7 THEN [rights EXCEPT !.K = FALSE]
                        ELSE rights
                   ELSE IF move.from_square = 56 THEN [rights EXCEPT !.q = FALSE]
                        ELSE IF move.from_square = 63 THEN [rights EXCEPT !.k = FALSE]
                        ELSE rights
              ELSE rights
    IN  IF captured_type = ROOK
        THEN IF move.to_square = 0 THEN [r1 EXCEPT !.Q = FALSE]
             ELSE IF move.to_square = 7 THEN [r1 EXCEPT !.K = FALSE]
             ELSE IF move.to_square = 56 THEN [r1 EXCEPT !.q = FALSE]
             ELSE IF move.to_square = 63 THEN [r1 EXCEPT !.k = FALSE]
             ELSE r1
        ELSE r1

Abs(n) == IF n < 0 THEN 0 - n ELSE n

\* _update_en_passant, evaluated before the side to move is switched
update_en_passant(to_move, move, piece_type) ==
    IF piece_type = PAWN
       /\ Abs(RankOf(move.to_square) - RankOf(move.from_square)) = 2
    THEN move.from_square + (IF to_move = WHITE THEN 8 ELSE 0 - 8)
    ELSE NONE

make_move_internal(board, move) ==
    LET Updated(moving, captured, captured_type, b1) ==
            IF b1.raised THEN b1
            ELSE [update_occupancy(b1) EXCEPT
                     !.castling_rights =
                         update_castling_rights(board.castling_rights, move,
                             moving.piece_type, moving.color, captured_type),
                     !.en_passant_square =
                         update_en_passant(board.to_move, move, moving.piece_type),
                     !.halfmove_clock =
                         IF moving.piece_type = PAWN \/ captured # NoPiece
                         THEN 0 ELSE board.halfmove_clock + 1,
                     !.fullmove_number =
                         IF board.to_move = BLACK THEN board.fullmove_number + 1
                         ELSE board.fullmove_number,
                     !.to_move = Opp(board.to_move)]
        Applied(moving, captured) ==
            IF moving = NoPiece THEN board
            ELSE IF move.to_square < 0 THEN Raise(board)
            ELSE Updated(moving, captured,
                    IF move.is_en_passant /\ ~move.is_castling THEN PAWN
                    ELSE captured.piece_type,
                    IF move.is_castling THEN handle_castling(board, move)
                    ELSE IF move.is_en_passant THEN handle_en_passant(board, move)
                    ELSE NormalMove(board, move, moving, captured))
    IN  IF move.from_square < 0 THEN Raise(board)
        ELSE Applied(get_piece_at(board, move.from_square),
                     get_piece_at(board, move.to_square))

----------------------------------------------------------------------------
(* Snapshot / restore and legality                                         *)

save_state(board) ==
    [pieces |-> board.pieces,
     color_occupancy |-> board.color_occupancy,
     all_occupancy |-> board.all_occupancy,
     to_move |-> board.to_move,
     castling_rights |-> board.castling_rights,
     en_passant_square |-> board.en_passant_square,
     halfmove_clock |-> board.halfmove_clock,
     fullmove_number |-> board.fullmove_number]

\* a restore that forgets the en-passant square
restore_state_forgets_en_passant(board, state) ==
    [board EXCEPT !.pieces = state.pieces,
                  !.color_occupancy = state.color_occupancy,
                  !.all_occupancy = state.all_occupancy,
                  !.to_move = state.to_move,
                  !.castling_rights = state.castling_rights,
                  !.halfmove_clock = state.halfmove_clock,
                  !.fullmove_number = state.fullmove_number]

restore_state(board, state) ==
    [board EXCEPT !.pieces = state.pieces,
                  !.color_occupancy = state.color_occupancy,
                  !.all_occupancy = state.all_occupancy,
                  !.to_move = state.to_move,
                  !.castling_rights = state.castling_rights,
                  !.en_passant_square = state.en_passant_square,
                  !.halfmove_clock = state.halfmove_clock,
                  !.fullmove_number = state.fullmove_number]

\* is_legal_move: result and the board it leaves behind
is_legal_move(board, move) ==
    LET Tested(made) ==
            IF made.raised THEN [is_legal |-> FALSE, board |-> made]
            ELSE [is_legal |-> ~is_in_check(made, Opp(made.to_move)),
                  board |-> restore_state(made, save_state(board))]
    IN  Tested(make_move_internal(board, move))

RECURSIVE FilterLegal(_, _, _, _)
\* the "for move in pseudo_legal_moves" loop of generate_legal_moves over the
\* moves first..last, run as its first half followed by its second half on
\* the board the first half leaves; a raise ends the loop
FilterLegal(board, pseudo_legal_moves, first, last) ==
    LET Kept(r) ==
            [moves |-> IF ~r.board.raised /\ r.is_legal
                       THEN <<pseudo_legal_moves[first]>> ELSE <<>>,
             board |-> r.board]
        Joined(head, tail) ==
            [moves |-> head.moves \o tail.moves, board |-> tail.board]
        Halves(middle, head) ==
            Joined(head, FilterLegal(head.board, pseudo_legal_moves, middle + 1, last))
    IN  CASE first > last \/ board.raised -> [moves |-> <<>>, board |-> board]
          [] first = last /\ ~board.raised ->
                 Kept(is_legal_move(board, pseudo_legal_moves[first]))
          [] first < last /\ ~board.raised ->
                 Halves((first + last) \div 2,
                        FilterLegal(board, pseudo_legal_moves, first,
                                    (first + last) \div 2))

\* generate_legal_moves: the list returned and the board it leaves behind
generate_legal_moves(board) ==
    LET Filter(pseudo_legal_moves) ==
            FilterLegal(board, pseudo_legal_moves, 1, Len(pseudo_legal_moves))
    IN  Filter(generate_pseudo_legal_moves(board))

----------------------------------------------------------------------------
(* FEN text.  A Python string is the sequence of its characters.           *)

digit_chars == <<"0", "1", "2", "3", "4", "5", "6", "7", "8", "9">>
file_chars == <<"a", "b", "c", "d", "e", "f", "g", "h">>
piece_symbols == <<"p", "n", "b", "r", "q", "k">>
upper_symbols == <<"P", "N", "B", "R", "Q", "K">>

IsDigit(char) == \E i \in 1..10 : digit_chars[i] = char
DigitValue(char) == (CHOOSE i \in 1..10 : digit_chars[i] = char) - 1

RECURSIVE NatToStr(_)
\* str(n) for n >= 0
NatToStr(n) ==
    IF n < 10 THEN <<digit_chars[n + 1]>>
    ELSE NatToStr(n \div 10) \o <<digit_chars[(n % 10) + 1]>>

RECURSIVE StrToNat(_, _, _)
\* int(text) for a string of decimal digits
StrToNat(text, i, acc) ==
    IF i > Len(text) THEN acc
    ELSE StrToNat(text, i + 1, acc * 10 + DigitValue(text[i]))

IsNumber(text) == Len(text) > 0 /\ \A i \in 1..Len(text) : IsDigit(text[i])

\* str(Square.from_index(index))
SquareToStr(index) ==
    <<file_chars[FileOf(index) + 1]>> \o NatToStr(RankOf(index) + 1)

\* one rank of the piece placement, scanned from file a to file h: a piece
\* emits its symbol, and the last square of a run of empty squares emits the
\* length of the run
RankStr(board, rank) ==
    LET piece(file) == get_piece_at(board, rank * 8 + file)
        run_end(file) == piece(file) = NoPiece
                         /\ (file = 7 \/ piece(file + 1) # NoPiece)
        emitting == {file \in 0..7 : piece(file) # NoPiece \/ run_end(file)}
        nth(k) == CHOOSE file \in emitting :
                      Cardinality({f \in emitting : f < file}) = k - 1
        run_length(file) ==
            Cardinality({f \in 0..file : \A g \in f..file : piece(g) = NoPiece})
        symbol(file) ==
            IF piece(file) = NoPiece THEN digit_chars[run_length(file) + 1]
            ELSE IF piece(file).color = WHITE
            THEN upper_symbols[piece(file).piece_type + 1]
            ELSE piece_symbols[piece(file).piece_type + 1]
    IN  [k \in 1..Cardinality(emitting) |-> symbol(nth(k))]

\* "/".join(fen_parts), rank 8 first
PlacementStr(board) ==
    LET slash == <<"/">>
        Joined(ranks) ==
            ranks[7] \o slash \o ranks[6] \o slash \o ranks[5] \o slash \o ranks[4]
            \o slash \o ranks[3] \o slash \o ranks[2] \o slash \o ranks[1]
            \o slash \o ranks[0]
    IN  Joined([r \in 0..7 |-> RankStr(board, r)])

CastlingStr(rights) ==
    LET text == (IF rights.K THEN <<"K">> ELSE <<>>)
                \o (IF rights.Q THEN <<"Q">> ELSE <<>>)
                \o (IF rights.k THEN <<"k">> ELSE <<>>)
                \o (IF rights.q THEN <<"q">> ELSE <<>>)
    IN  IF text = <<>> THEN <<"-">> ELSE text

to_fen(board) ==
    PlacementStr(board)
    \o <<" ", IF board.to_move = WHITE THEN "w" ELSE "b", " ">>
    \o CastlingStr(board.castling_rights)
    \o <<" ">>
    \o (IF board.en_passant_square # NONE
        THEN SquareToStr(board.en_passant_square) ELSE <<"-">>)
    \o <<" ">> \o NatToStr(board.halfmove_clock)
    \o <<" ">> \o NatToStr(board.fullmove_number)

\* fen.strip().split(): the maximal runs of non-blank characters
SplitWords(text) ==
    LET starts == {i \in 1..Len(text) :
                      text[i] # " " /\ (i = 1 \/ text[i - 1] = " ")}
        nth(k) == CHOOSE i \in starts : Cardinality({j \in starts : j < i}) = k - 1
        last(i) == CHOOSE j \in i..Len(text) :
                       /\ \A m \in i..j : text[m] # " "
                       /\ (j = Len(text) \/ text[j + 1] = " ")
    IN  [k \in 1..Cardinality(starts) |-> SubSeq(text, nth(k), last(nth(k)))]

SymbolIndex(symbols, char) ==
    IF \E i \in 1..6 : symbols[i] = char
    THEN CHOOSE i \in 1..6 : symbols[i] = char ELSE 0

\* the piece-placement loop of from_fen: the character at index i lands on
\* rank 7 minus the number of "/" before it, at the file reached by the
\* digits and pieces since the last "/".  raised is set for a character that
\* is not in piece_chars (KeyError) and for a negative square (1 << square);
\* the pieces placed before the raising character stay placed.
ParsePlacement(text) ==
    LET indices == 1..Len(text)
        rank(i) == 7 - Cardinality({j \in 1..(i - 1) : text[j] = "/"})
        segment(i) == {j \in 1..(i - 1) : \A m \in j..(i - 1) : text[m] # "/"}
        width(j) == IF IsDigit(text[j]) THEN DigitValue(text[j]) ELSE 1
        file(i) == Cardinality({<<j, n>> \in segment(i) \X (1..9) : n <= width(j)})
        square(i) == rank(i) * 8 + file(i)
        white(i) == SymbolIndex(upper_symbols, text[i])
        black(i) == SymbolIndex(piece_symbols, text[i])
        is_piece(i) == text[i] # "/" /\ ~IsDigit(text[i])
        raising == {i \in indices :
                       is_piece(i) /\ ((white(i) = 0 /\ black(i) = 0) \/ square(i) < 0)}
        placed == {i \in indices :
                      is_piece(i) /\ \A j \in raising : i < j}
    IN  [pieces |-> [color \in Colors |-> [piece_type \in 0..5 |->
                        {square(i) : i \in {j \in placed :
                            IF color = WHITE THEN white(j) = piece_type + 1
                            ELSE black(j) = piece_type + 1}}]],
         raised |-> raising # {}]

\* Square.from_string(text).index
StrToSquare(text) ==
    ((CHOOSE i \in 1..8 : file_chars[i] = text[1]) - 1) + (DigitValue(text[2]) - 1) * 8

\* from_fen: the board is cleared, then the fields are read in order; a
\* missing field (IndexError), a character that is not in piece_chars
\* (KeyError) or a clock that int() rejects (ValueError) raises and leaves
\* the fields assigned so far.  The en-passant field is "-" or a square name.
from_fen(board, fen) ==
    LET Cleared == [board EXCEPT !.pieces = NoPieces,
                                 !.color_occupancy = [color \in Colors |-> {}],
                                 !.all_occupancy = {}]
        Clocks(parts, b) ==
            IF Len(parts) < 5 \/ ~IsNumber(parts[5]) THEN Raise(b)
            ELSE IF Len(parts) < 6 \/ ~IsNumber(parts[6])
            THEN Raise([b EXCEPT !.halfmove_clock = StrToNat(parts[5], 1, 0)])
            ELSE [b EXCEPT !.halfmove_clock = StrToNat(parts[5], 1, 0),
                           !.fullmove_number = StrToNat(parts[6], 1, 0),
                           !.move_history = <<>>,
                           !.position_history = <<fen>>]
        Castling(parts, b) ==
            IF Len(parts) < 3 THEN Raise(b)
            ELSE [b EXCEPT !.castling_rights =
                        [K |-> \E i \in 1..Len(parts[3]) : parts[3][i] = "K",
                         Q |-> \E i \in 1..Len(parts[3]) : parts[3][i] = "Q",
                         k |-> \E i \in 1..Len(parts[3]) : parts[3][i] = "k",
                         q |-> \E i \in 1..Len(parts[3]) : parts[3][i] = "q"]]
        EnPassant(parts, b) ==
            IF b.raised THEN b
            ELSE IF Len(parts) < 4 THEN Raise(b)
            ELSE Clocks(parts, [b EXCEPT !.en_passant_square =
                     IF parts[4] # <<"-">> THEN StrToSquare(parts[4]) ELSE NONE])
        Fields(parts, b) ==
            IF Len(parts) < 2 THEN Raise(b)
            ELSE EnPassant(parts, Castling(parts, [b EXCEPT !.to_move =
                     IF parts[2] = <<"w">> THEN WHITE ELSE BLACK]))
        Loaded(parts, placed) ==
            IF placed.raised THEN Raise([Cleared EXCEPT !.pieces = placed.pieces])
            ELSE Fields(parts, update_occupancy([board EXCEPT !.pieces = placed.pieces]))
        Split(parts) ==
            IF Len(parts) = 0 THEN Raise(Cleared)
            ELSE Loaded(parts, ParsePlacement(parts[1]))
    IN  Split(SplitWords(fen))

----------------------------------------------------------------------------
(* Board construction and make_move                                        *)

\* Board.__init__ followed by setup_starting_position
StartingBoard ==
    LET p1 == [NoPieces EXCEPT
                 ![WHITE][ROOK] = {0, 7}, ![BLACK][ROOK] = {56, 63},
                 ![WHITE][KNIGHT] = {1, 6}, ![BLACK][KNIGHT] = {57, 62},
                 ![WHITE][BISHOP] = {2, 5}, ![BLACK][BISHOP] = {58, 61},
                 ![WHITE][QUEEN] = {3}, ![BLACK][QUEEN] = {59},
                 ![WHITE][KING] = {4}, ![BLACK][KING] = {60},
                 ![WHITE][PAWN] = 8..15, ![BLACK][PAWN] = 48..55]
    IN  update_occupancy(
          [pieces |-> p1,
           color_occupancy |-> [color \in Colors |-> {}],
           all_occupancy |-> {},
           to_move |-> WHITE,
           castling_rights |-> [K |-> TRUE, Q |-> TRUE, k |-> TRUE, q |-> TRUE],
           en_passant_square |-> NONE,
           halfmove_clock |-> 0,
           fullmove_number |-> 1,
           move_history |-> <<>>,
           position_history |-> <<>>,
           raised |-> FALSE])

\* make_move after the legality test r: history is appended to only when
\* the move was then made
RecordMove(move, made) ==
    IF made.raised THEN [ok |-> FALSE, board |-> made]
    ELSE [ok |-> TRUE,
          board |-> [made EXCEPT
                      !.move_history = Append(@, move),
                      !.position_history = Append(@, to_fen(made))]]

MakeMoveIfLegal(move, r) ==
    IF r.board.raised \/ ~r.is_legal THEN [ok |-> FALSE, board |-> r.board]
    ELSE RecordMove(move, make_move_internal(r.board, move))

\* make_move: the value returned and the board it leaves behind
make_move(board, move) == MakeMoveIfLegal(move, is_legal_move(board, move))

----------------------------------------------------------------------------
(* StaticExchangeEvaluator                                                 *)

PIECE_VALUES == <<100, 320, 330, 500, 900, 20000>>

Sign(n) == IF n = 0 THEN 0 ELSE IF n > 0 THEN 1 ELSE 0 - 1

RECURSIVE PathClear(_, _, _, _)
\* the "while current_square != target_square" walk of sliding_piece_attacks
PathClear(board, current_square, target_square, step) ==
    IF current_square = target_square THEN TRUE
    ELSE IF get_piece_at(board, current_square) # NoPiece THEN FALSE
    ELSE PathClear(board, current_square + step, target_square, step)

sliding_piece_attacks(board, piece_square, piece_type, target_square) ==
    LET file_diff == FileOf(target_square) - FileOf(piece_square)
        rank_diff == RankOf(target_square) - RankOf(piece_square)
        is_diagonal == Abs(file_diff) = Abs(rank_diff)
        is_straight == file_diff = 0 \/ rank_diff = 0
        step == Sign(rank_diff) * 8 + Sign(file_diff)
    IN  IF piece_type = BISHOP /\ ~is_diagonal THEN FALSE
        ELSE IF piece_type = ROOK /\ ~is_straight THEN FALSE
        ELSE IF piece_type = QUEEN /\ ~(is_diagonal \/ is_straight) THEN FALSE
        ELSE IF file_diff = 0 /\ rank_diff = 0 THEN FALSE
        ELSE PathClear(board, piece_square + step, target_square, step)

\* piece_attacks_square; "raise" when get_piece_at is called on square -1
piece_attacks_square(board, piece_square, piece_type, target_square) ==
    CASE piece_type = PAWN ->
            IF piece_square < 0 THEN "raise"
            ELSE LET piece_info == get_piece_at(board, piece_square)
                 IN  IF piece_info = NoPiece THEN FALSE
                     ELSE target_square \in pawn_attacks[piece_info.color + 1][piece_square]
      [] piece_type = KNIGHT -> target_square \in knight_attacks[PyIndex(piece_square)]
      [] piece_type = KING -> target_square \in king_attacks[PyIndex(piece_square)]
      [] OTHER -> sliding_piece_attacks(board, piece_square, piece_type, target_square)

\* get_attackers: the squares popped from the colour's bitboards whose piece
\* type attacks the target; raised when a pawn bitboard has bit 0 set
get_attackers(board, square, color) ==
    LET Popped(piece_type) ==
            {l - 1 : l \in board.pieces[color][piece_type]}
    IN  [raised |-> 0 \in board.pieces[color][PAWN],
         squares |->
            IF 0 \in board.pieces[color][PAWN] THEN {}
            ELSE UNION {{piece_square \in Popped(piece_type) :
                            piece_attacks_square(board, piece_square,
                                                 piece_type, square) = TRUE} :
                        piece_type \in 0..5}]

\* the least valuable attacker of one side: NONE when no attacker square
\* holds a piece
LeastAttacker(board, attackers) ==
    LET held == {square \in attackers : get_piece_at(board, square) # NoPiece}
        Value(square) == PIECE_VALUES[get_piece_at(board, square).piece_type + 1]
    IN  IF held = {} THEN NONE
        ELSE CHOOSE square \in held : \A other \in held : Value(square) <= Value(other)

RECURSIVE ExchangeGains(_, _, _, _, _, _)
\* the capture loop: gain is the list gain[0..depth-1] filled so far
ExchangeGains(board, attackers, current_color, current_piece_value, gain, depth) ==
    LET Captured(attacker_square, gain1) ==
            IF attacker_square = NONE THEN [raised |-> FALSE, gain |-> gain]
            ELSE IF depth + 1 >= 32 THEN [raised |-> FALSE, gain |-> gain1]
            ELSE ExchangeGains(board,
                     [attackers EXCEPT ![current_color] = @ \ {attacker_square}],
                     Opp(current_color),
                     PIECE_VALUES[get_piece_at(board, attacker_square).piece_type + 1],
                     gain1, depth + 1)
    IN  IF 0 - 1 \in attackers[current_color] THEN [raised |-> TRUE, gain |-> gain]
        ELSE Captured(LeastAttacker(board, attackers[current_color]),
                      Append(gain, current_piece_value - gain[depth]))

RECURSIVE FoldGains(_, _)
\* "while depth > 1: depth -= 1; gain[depth-1] = -max(-gain[depth-1], gain[depth])"
\* on the 1-based list; depth starts at the number of entries written
FoldGains(gain, depth) ==
    IF depth <= 1 THEN gain[1]
    ELSE LET upper == gain[depth]
             lower == gain[depth - 1]
             folded == 0 - (IF 0 - lower >= upper THEN 0 - lower ELSE upper)
         IN  FoldGains([gain EXCEPT ![depth - 1] = folded], depth - 1)

\* StaticExchangeEvaluator.evaluate for move.to_square >= 0
see_evaluate(board, move) ==
    LET Folded(e) == [raised |-> e.raised, value |-> FoldGains(e.gain, Len(e.gain))]
        Exchange(captured_piece, white_attackers, black_attackers, moving_piece) ==
            IF moving_piece = NoPiece THEN [raised |-> FALSE, value |-> 0]
            ELSE Folded(ExchangeGains(board,
                     [color \in Colors |->
                        (IF color = WHITE THEN white_attackers.squares
                         ELSE black_attackers.squares)
                        \ (IF color = board.to_move THEN {move.from_square} ELSE {})],
                     Opp(board.to_move),
                     PIECE_VALUES[moving_piece.piece_type + 1],
                     <<PIECE_VALUES[captured_piece.piece_type + 1]>>, 1))
        Attacked(captured_piece, white_attackers, black_attackers) ==
            IF captured_piece = NoPiece THEN [raised |-> FALSE, value |-> 0]
            ELSE IF white_attackers.raised \/ black_attackers.raised
            THEN [raised |-> TRUE, value |-> 0]
            ELSE IF move.from_square < 0 THEN [raised |-> TRUE, value |-> 0]
            ELSE Exchange(captured_piece, white_attackers, black_attackers,
                          get_piece_at(board, move.from_square))
    IN  Attacked(get_piece_at(board, move.to_square),
                 get_attackers(board, move.to_square, WHITE),
                 get_attackers(board, move.to_square, BLACK))

----------------------------------------------------------------------------
(* MoveOrderer                                                             *)

HASH_MOVE_SCORE == 10000
WINNING_CAPTURE_BASE == 8000
KILLER_MOVE_SCORE == 7000
QUIET_MOVE_BASE == 1000
LOSING_CAPTURE_BASE == 100

NoMove == Move(NONE, NONE, NONE, FALSE, FALSE)

\* MoveOrderer.__init__
NewMoveOrderer ==
    [killer_moves |-> [ply \in 0..63 |-> <<NoMove, NoMove>>],
     history_table |-> <<>>]

moves_equal(move1, move2) == move2 # NoMove /\ MoveEq(move1, move2)

HistoryGet(history_table, move_key) ==
    IF move_key \in DOMAIN history_table THEN history_table[move_key] ELSE 0

\* score_move with hash_move = None
score_move(orderer, board, move, ply) ==
    LET Quiet(quiet) == [raised |-> FALSE, score |-> quiet]
        Capture(captured_piece, moving_piece, see, quiet) ==
            IF moving_piece = NoPiece THEN Quiet(quiet)
            ELSE IF see.raised THEN [raised |-> TRUE, score |-> 0]
            ELSE IF see.value >= 0
            THEN [raised |-> FALSE,
                  score |-> WINNING_CAPTURE_BASE
                            + PIECE_VALUES[captured_piece.piece_type + 1]
                            - PIECE_VALUES[moving_piece.piece_type + 1]]
            ELSE [raised |-> FALSE, score |-> LOSING_CAPTURE_BASE + see.value]
        Scored(captured_piece, quiet) ==
            IF captured_piece = NoPiece THEN Quiet(quiet)
            ELSE IF move.from_square < 0 THEN [raised |-> TRUE, score |-> 0]
            ELSE Capture(captured_piece, get_piece_at(board, move.from_square),
                         see_evaluate(board, move), quiet)
    IN  IF move.to_square < 0 THEN [raised |-> TRUE, score |-> 0]
        ELSE Scored(get_piece_at(board, move.to_square),
                    IF move.promotion # NONE
                    THEN WINNING_CAPTURE_BASE + PIECE_VALUES[move.promotion + 1]
                    ELSE IF ply < 64
                            /\ \E i \in 1..2 :
                                  moves_equal(move, orderer.killer_moves[ply][i])
                    THEN KILLER_MOVE_SCORE
                    ELSE QUIET_MOVE_BASE
                         + HistoryGet(orderer.history_table,
                                      <<move.from_square, move.to_square>>))

\* list.sort(key=score, reverse=True), a stable sort: an entry comes after
\* the entries of higher score and the earlier entries of equal score
SortByScore(entries) ==
    LET before(i) == {j \in 1..Len(entries) :
                         \/ entries[j].score > entries[i].score
                         \/ entries[j].score = entries[i].score /\ j < i}
    IN  [k \in 1..Len(entries) |->
            entries[CHOOSE i \in 1..Len(entries) : Cardinality(before(i)) = k - 1]]

\* order_moves: the ordered list, or raised when scoring a move raises
order_moves(orderer, board, moves, ply) ==
    LET MovesOf(sorted) == [i \in 1..Len(moves) |-> sorted[i].move]
        Ordered(scored) ==
            IF \E i \in 1..Len(moves) : scored[i].raised
            THEN [raised |-> TRUE, moves |-> moves]
            ELSE [raised |-> FALSE,
                  moves |-> MovesOf(SortByScore(
                      [i \in 1..Len(moves) |->
                          [move |-> moves[i], score |-> scored[i].score]]))]
    IN  Ordered([i \in 1..Len(moves) |-> score_move(orderer, board, moves[i], ply)])

\* update_killer_moves for move.to_square >= 0
update_killer_moves(orderer, move, ply, board) ==
    IF ply < 64 /\ get_piece_at(board, move.to_square) = NoPiece
       /\ ~moves_equal(move, orderer.killer_moves[ply][1])
    THEN [orderer EXCEPT !.killer_moves[ply] = <<move, orderer.killer_moves[ply][1]>>]
    ELSE orderer

update_history(orderer, move, depth) ==
    LET move_key == <<move.from_square, move.to_square>>
        bonus == depth * depth
    IN  [orderer EXCEPT !.history_table =
            (move_key :> (HistoryGet(orderer.history_table, move_key) + bonus)) @@ @]

----------------------------------------------------------------------------
(* Evaluator: the external collaborator of the search                      *)

MaterialOf(board, color) ==
    100 * Cardinality(board.pieces[color][PAWN])
    + 320 * Cardinality(board.pieces[color][KNIGHT])
    + 330 * Cardinality(board.pieces[color][BISHOP])
    + 500 * Cardinality(board.pieces[color][ROOK])
    + 900 * Cardinality(board.pieces[color][QUEEN])

\* centipawn score from the side to move's perspective
evaluate(board) == MaterialOf(board, board.to_move) - MaterialOf(board, Opp(board.to_move))

is_insufficient_material(board) ==
    \A color \in Colors : \A piece_type \in 0..4 : board.pieces[color][piece_type] = {}

----------------------------------------------------------------------------
(* QuiescenceSearch.  A search session is the record                       *)
(*   board, orderer       the Board and the MoveOrderer                    *)
(*   should_stop          NegascoutSearch.should_stop                      *)
(*   polls, expire_at     the number of deadline polls made so far and the *)
(*                        first poll that finds the deadline passed        *)
(*   nodes_searched, cutoffs   the statistics counters                     *)
(*   quiescence_nodes     QuiescenceSearch.nodes_searched                  *)

RaiseIn(session) == [session EXCEPT !.board = Raise(@)]

\* "stand_pat = self.evaluator.evaluate(board)", negated when Black is to move
StandPat(board) ==
    IF board.to_move = BLACK THEN 0 - evaluate(board) ELSE evaluate(board)

unmake_last_move(board) ==
    IF board.move_history = <<>> THEN board
    ELSE LET b1 == [board EXCEPT !.move_history = SubSeq(@, 1, Len(@) - 1)]
         IN  IF b1.position_history = <<>> THEN b1
             ELSE LET b2 == [b1 EXCEPT !.position_history = SubSeq(@, 1, Len(@) - 1)]
                  IN  IF b2.position_history = <<>> THEN b2
                      ELSE from_fen(b2, b2.position_history[Len(b2.position_history)])

RECURSIVE QuiescenceMoves(_, _, _, _)
\* the loop of generate_quiescence_moves over the pseudo-legal moves
\* first..last, run as its first half followed by its second half: a capture
\* (any piece on the target square) or a promotion is kept, and so is a move
\* after which is_in_check(opposite of the new side to move) holds
QuiescenceMoves(board, pseudo_legal_moves, first, last) ==
    LET Joined(head, tail) ==
            [moves |-> head.moves \o tail.moves, board |-> tail.board]
        Halves(middle, head) ==
            Joined(head, QuiescenceMoves(head.board, pseudo_legal_moves,
                                         middle + 1, last))
        Tested(move, made) ==
            IF made.raised THEN [moves |-> <<>>, board |-> made]
            ELSE [moves |-> IF is_in_check(made, Opp(made.to_move))
                            THEN <<move>> ELSE <<>>,
                  board |-> restore_state(made, save_state(board))]
        Step(move, step) ==
            CASE step = "none" -> [moves |-> <<>>, board |-> board]
              [] step = "halves" ->
                     Halves((first + last) \div 2,
                            QuiescenceMoves(board, pseudo_legal_moves, first,
                                            (first + last) \div 2))
              [] step = "raised" -> [moves |-> <<>>, board |-> Raise(board)]
              [] step = "forcing" -> [moves |-> <<move>>, board |-> board]
              [] step = "quiet" -> Tested(move, make_move_internal(board, move))
    IN  Step(pseudo_legal_moves[first],
             IF first > last \/ board.raised THEN "none"
             ELSE IF first < last THEN "halves"
             ELSE IF pseudo_legal_moves[first].to_square < 0 THEN "raised"
             ELSE IF get_piece_at(board, pseudo_legal_moves[first].to_square) # NoPiece
                     \/ pseudo_legal_moves[first].promotion # NONE THEN "forcing"
             ELSE "quiet")

generate_quiescence_moves(board) ==
    LET Filter(pseudo_legal_moves) ==
            QuiescenceMoves(board, pseudo_legal_moves, 1, Len(pseudo_legal_moves))
    IN  Filter(generate_pseudo_legal_moves(board))

RECURSIVE quiescence_search(_, _, _, _)
RECURSIVE QuiescenceLoop(_, _, _, _, _, _)

\* the rest of one pass of the quiescence loop once the child search has
\* returned: the move is taken back, then the score is compared
QuiescenceSearched(state, beta, child) ==
    LET Undone(score, s2) ==
            [session |-> s2,
             alpha |-> IF score > state.alpha THEN score ELSE state.alpha,
             status |-> IF s2.board.raised THEN "raised"
                        ELSE IF score >= beta THEN "cutoff" ELSE "running"]
    IN  IF child.session.board.raised
        THEN [state EXCEPT !.session = child.session, !.status = "raised"]
        ELSE Undone(0 - child.score,
                    [child.session EXCEPT !.board = unmake_last_move(@)])

\* one pass of the "for move in moves" loop of QuiescenceSearch.search; state
\* is the record session, alpha, status, with status "running" while the
\* loop goes on, "cutoff" after "return beta" and "raised" after an exception
QuiescenceStep(state, move, beta, depth) ==
    LET Made(made) ==
            IF made.board.raised
            THEN [state EXCEPT !.session.board = made.board, !.status = "raised"]
            ELSE IF ~made.ok THEN [state EXCEPT !.session.board = made.board]
            ELSE QuiescenceSearched(state, beta,
                     quiescence_search([state.session EXCEPT !.board = made.board],
                                       0 - beta, 0 - state.alpha, depth + 1))
    IN  Made(make_move(state.session.board, move))

\* the passes for moves first..last, run as the first half followed by the
\* second half
QuiescenceLoop(state, moves, first, last, beta, depth) ==
    IF first > last \/ state.status # "running" THEN state
    ELSE IF first = last THEN QuiescenceStep(state, moves[first], beta, depth)
    ELSE QuiescenceLoop(
             QuiescenceLoop(state, moves, first, (first + last) \div 2, beta, depth),
             moves, (first + last) \div 2 + 1, last, beta, depth)

\* QuiescenceSearch.search from "moves = self.move_orderer.order_moves(...)"
QuiescenceOrdered(s2, alpha, beta, depth, ordered) ==
    LET Returned(state) ==
            [score |-> CASE state.status = "raised" -> 0
                         [] state.status = "cutoff" -> beta
                         [] state.status = "running" -> state.alpha,
             session |-> state.session]
    IN  IF ordered.raised THEN [score |-> 0, session |-> RaiseIn(s2)]
        ELSE Returned(QuiescenceLoop(
                 [session |-> s2, alpha |-> alpha, status |-> "running"],
                 ordered.moves, 1, Len(ordered.moves), beta, depth))

\* QuiescenceSearch.search from "moves = self.generate_quiescence_moves(board)"
QuiescenceGenerated(session, alpha, beta, depth, stand_pat, g) ==
    IF g.board.raised
    THEN [score |-> 0, session |-> [session EXCEPT !.board = g.board]]
    ELSE IF g.moves = <<>>
    THEN [score |-> stand_pat, session |-> [session EXCEPT !.board = g.board]]
    ELSE QuiescenceOrdered([session EXCEPT !.board = g.board], alpha, beta, depth,
             order_moves(session.orderer, g.board, g.moves, depth))

quiescence_search(session, alpha, beta, depth) ==
    LET Entered(s1) ==
            IF StandPat(s1.board) >= beta THEN [score |-> beta, session |-> s1]
            ELSE IF depth >= 16
            THEN [score |-> StandPat(s1.board), session |-> s1]
            ELSE QuiescenceGenerated(s1,
                     IF StandPat(s1.board) > alpha
                     THEN StandPat(s1.board) ELSE alpha,
                     beta, depth, StandPat(s1.board),
                     generate_quiescence_moves(s1.board))
    IN  Entered([session EXCEPT !.quiescence_nodes = @ + 1])

----------------------------------------------------------------------------
(* NegascoutSearch                                                         *)

INFINITY == 999999
MATE == 20000

\* time.time() - self.start_time > self.time_limit at the current poll
DeadlinePassed(session) ==
    session.expire_at # NONE /\ session.polls >= session.expire_at

CountOf(history, text) == Cardinality({i \in 1..Len(history) : history[i] = text})

is_draw(board) ==
    \/ board.halfmove_clock >= 100
    \/ /\ Len(board.position_history) >= 6
       /\ CountOf(board.position_history,
                  SplitWords(to_fen(board))[1]) >= 3
    \/ is_insufficient_material(board)

RECURSIVE negascout(_, _, _, _, _, _)
RECURSIVE NegascoutLoop(_, _, _, _, _, _, _, _)

\* the rest of one pass of the negascout move loop once the child's score is
\* known: the position is restored, then best_score and alpha are raised and
\* a beta cutoff updates the killer and history tables
NegascoutSearched(state, move, depth, beta, ply, old_state, child) ==
    LET Scored(best_score, alpha, s2) ==
            IF alpha >= beta
            THEN [session |-> [s2 EXCEPT
                                 !.cutoffs = @ + 1,
                                 !.orderer = update_history(
                                     update_killer_moves(@, move, ply, s2.board),
                                     move, depth)],
                  alpha |-> alpha, best_score |-> best_score, status |-> "cutoff"]
            ELSE [session |-> s2, alpha |-> alpha, best_score |-> best_score,
                  status |-> "running"]
    IN  IF child.session.board.raised
        THEN [state EXCEPT !.session = child.session, !.status = "raised"]
        ELSE Scored(IF 0 - child.score > state.best_score
                    THEN 0 - child.score ELSE state.best_score,
                    IF 0 - child.score > state.alpha
                    THEN 0 - child.score ELSE state.alpha,
                    [child.session EXCEPT !.board = restore_state(@, old_state)])

\* a later move of the loop after its null-window search: searched again
\* with the full window when the score falls inside it at a PV node
NegascoutProbed(state, move, depth, beta, ply, is_pv_node, old_state, probe) ==
    IF /\ ~probe.session.board.raised
       /\ state.alpha < 0 - probe.score /\ 0 - probe.score < beta
       /\ is_pv_node
    THEN NegascoutSearched(state, move, depth, beta, ply, old_state,
             negascout(probe.session, depth - 1, 0 - beta, probe.score,
                       ply + 1, TRUE))
    ELSE NegascoutSearched(state, move, depth, beta, ply, old_state, probe)

\* one pass of the "for i, move in enumerate(moves)" loop of negascout for
\* the i-th move (i = 1 is the first); state is the record session, alpha,
\* best_score, status, with status "running" while the loop goes on,
\* "cutoff" after the break and "raised" after an exception
NegascoutStep(state, move, i, depth, beta, ply, is_pv_node) ==
    LET Made(old_state, s1) ==
            IF s1.board.raised
            THEN [state EXCEPT !.session = s1, !.status = "raised"]
            ELSE IF i = 1
            THEN NegascoutSearched(state, move, depth, beta, ply, old_state,
                     negascout(s1, depth - 1, 0 - beta, 0 - state.alpha,
                               ply + 1, is_pv_node))
            ELSE NegascoutProbed(state, move, depth, beta, ply, is_pv_node,
                     old_state,
                     negascout(s1, depth - 1, 0 - state.alpha - 1, 0 - state.alpha,
                               ply + 1, FALSE))
    IN  Made(save_state(state.session.board),
             [state.session EXCEPT !.board = make_move_internal(@, move)])

\* the passes for moves first..last, run as the first half followed by the
\* second half; "if self.should_stop: break" opens every pass
NegascoutLoop(state, moves, first, last, depth, beta, ply, is_pv_node) ==
    IF first > last \/ state.status # "running" \/ state.session.should_stop
    THEN state
    ELSE IF first = last
    THEN NegascoutStep(state, moves[first], first, depth, beta, ply, is_pv_node)
    ELSE NegascoutLoop(
             NegascoutLoop(state, moves, first, (first + last) \div 2,
                           depth, beta, ply, is_pv_node),
             moves, (first + last) \div 2 + 1, last, depth, beta, ply, is_pv_node)

\* negascout from "moves = self.move_orderer.order_moves(...)"
NegascoutOrdered(s2, depth, alpha, beta, ply, is_pv_node, ordered) ==
    LET Returned(state) ==
            [score |-> IF state.status = "raised" THEN 0 ELSE state.best_score,
             session |-> state.session]
    IN  IF ordered.raised THEN [score |-> 0, session |-> RaiseIn(s2)]
        ELSE Returned(NegascoutLoop(
                 [session |-> s2, alpha |-> alpha, best_score |-> 0 - INFINITY,
                  status |-> "running"],
                 ordered.moves, 1, Len(ordered.moves), depth, beta, ply, is_pv_node))

\* negascout from "moves = board.generate_legal_moves()"; s1 is the session
\* with the node counted
NegascoutMoves(s1, depth, alpha, beta, ply, is_pv_node, g) ==
    IF g.board.raised THEN [score |-> 0, session |-> [s1 EXCEPT !.board = g.board]]
    ELSE IF g.moves = <<>>
    THEN [score |-> IF is_in_check(g.board, g.board.to_move) THEN ply - MATE ELSE 0,
          session |-> [s1 EXCEPT !.board = g.board]]
    ELSE IF is_draw(g.board)
    THEN [score |-> 0, session |-> [s1 EXCEPT !.board = g.board]]
    ELSE NegascoutOrdered([s1 EXCEPT !.board = g.board], depth, alpha, beta, ply,
             is_pv_node, order_moves(s1.orderer, g.board, g.moves, ply))

negascout(session, depth, alpha, beta, ply, is_pv_node) ==
    IF DeadlinePassed([session EXCEPT !.polls = @ + 1])
    THEN [score |-> 0,
          session |-> [session EXCEPT !.polls = @ + 1, !.should_stop = TRUE]]
    ELSE IF depth <= 0
    THEN quiescence_search(
             [session EXCEPT !.polls = @ + 1, !.nodes_searched = @ + 1],
             alpha, beta, 0)
    ELSE NegascoutMoves(
             [session EXCEPT !.polls = @ + 1, !.nodes_searched = @ + 1],
             depth, alpha, beta, ply, is_pv_node,
             generate_legal_moves(session.board))

\* the rest of one pass of the root move loop once the child's score is
\* known: the position is restored and the best move updated before
\* should_stop is looked at
RootSearched(state, move, old_state, score, child) ==
    LET Scored(move_score, s2) ==
            [result |-> [state.result EXCEPT
                           !.best_move = IF move_score > state.alpha THEN move ELSE @,
                           !.best_score = IF move_score > state.alpha THEN score ELSE @,
                           !.session = s2],
             alpha |-> IF move_score > state.alpha THEN move_score ELSE state.alpha,
             status |-> IF s2.should_stop THEN "stop" ELSE "running"]
    IN  IF child.session.board.raised
        THEN [state EXCEPT !.result.session = child.session, !.status = "raised"]
        ELSE Scored(0 - child.score,
                    [child.session EXCEPT !.board = restore_state(@, old_state)])

\* one pass of the root move loop of search; state is the record result
\* (best_move, best_score, last_completed, session), alpha, status, with
\* status "running" while the loop goes on, "stop" after the break and
\* "raised" after an exception
RootStep(state, move, current_depth, beta, score) ==
    LET Made(old_state, s1) ==
            IF s1.board.raised
            THEN [state EXCEPT !.result.session = s1, !.status = "raised"]
            ELSE RootSearched(state, move, old_state, score,
                     negascout(s1, current_depth - 1, 0 - beta, 0 - state.alpha,
                               1, FALSE))
    IN  Made(save_state(state.result.session.board),
             [state.result.session EXCEPT !.board = make_move_internal(@, move)])

RECURSIVE RootMoveLoop(_, _, _, _, _, _, _)
\* the passes for moves first..last, run as the first half followed by the
\* second half
RootMoveLoop(state, moves, first, last, current_depth, beta, score) ==
    IF first > last \/ state.status # "running" THEN state
    ELSE IF first = last
    THEN RootStep(state, moves[first], current_depth, beta, score)
    ELSE RootMoveLoop(
             RootMoveLoop(state, moves, first, (first + last) \div 2,
                          current_depth, beta, score),
             moves, (first + last) \div 2 + 1, last, current_depth, beta, score)

RECURSIVE IterativeDeepening(_, _, _)

\* the end of one depth of the loop: last_completed is updated when the
\* depth ran to its end, and the next depth follows
DepthCompleted(current_depth, depth, root, completed) ==
    IterativeDeepening(
        [completed EXCEPT !.last_completed =
            IF completed.session.board.raised \/ completed.session.should_stop
            THEN @
            ELSE [depth |-> current_depth, score |-> root.score,
                  best_move |-> completed.best_move,
                  best_score |-> completed.best_score]],
        current_depth + 1, depth)

\* one depth from the ordering of the root moves
DepthOrdered(result, current_depth, depth, root, s1, ordered) ==
    DepthCompleted(current_depth, depth, root,
        IF ordered.raised THEN [result EXCEPT !.session = RaiseIn(s1)]
        ELSE RootMoveLoop(
                 [result |-> [result EXCEPT !.session = s1],
                  alpha |-> 0 - INFINITY, status |-> "running"],
                 ordered.moves, 1, Len(ordered.moves),
                 current_depth, INFINITY, root.score).result)

\* one depth from the generation of the root moves
DepthMoves(result, current_depth, depth, root, g) ==
    IF g.board.raised \/ g.moves = <<>>
    THEN DepthCompleted(current_depth, depth, root,
             [result EXCEPT !.session = [root.session EXCEPT !.board = g.board]])
    ELSE DepthOrdered(result, current_depth, depth, root,
             [root.session EXCEPT !.board = g.board],
             order_moves(root.session.orderer, g.board, g.moves, 0))

\* one depth after the root call of negascout
DepthRoot(result, current_depth, depth, root) ==
    IF root.session.board.raised \/ root.session.should_stop
    THEN DepthCompleted(current_depth, depth, root,
             [result EXCEPT !.session = root.session])
    ELSE DepthMoves(result, current_depth, depth, root,
             generate_legal_moves(root.session.board))

\* the "for current_depth in range(1, depth + 1)" loop of search
IterativeDeepening(result, current_depth, depth) ==
    IF current_depth > depth \/ result.session.should_stop
       \/ result.session.board.raised
    THEN result
    ELSE DepthRoot(result, current_depth, depth,
             negascout(result.session, current_depth,
                       0 - INFINITY, INFINITY, 0, TRUE))

\* NegascoutSearch.search(board, depth, time_limit): best_move, best_score
\* and the session left behind; expire_at stands for the moment the wall
\* clock passes the time limit.  last_completed records what the search held
\* at the end of the last depth that ran to its end with should_stop unset
\* (depth 0: none yet).
search(board, orderer, depth, expire_at) ==
    IterativeDeepening(
        [best_move |-> NoMove, best_score |-> 0,
         last_completed |-> [depth |-> 0, score |-> 0,
                             best_move |-> NoMove, best_score |-> 0],
         session |-> [board |-> board, orderer |-> orderer,
                      should_stop |-> FALSE, polls |-> 0, expire_at |-> expire_at,
                      nodes_searched |-> 0, cutoffs |-> 0,
                      quiescence_nodes |-> 0]],
        1, depth)

----------------------------------------------------------------------------
(* Perft: the number of move sequences of a given length                   *)

RECURSIVE Perft(_, _)
RECURSIVE PerftSum(_, _, _, _)
PerftSum(board, moves, i, depth) ==
    IF i > Len(moves) THEN 0
    ELSE Perft(make_move_internal(board, moves[i]), depth - 1)
         + PerftSum(board, moves, i + 1, depth)

Perft(board, depth) ==
    LET Counted(r) ==
            IF depth = 1 THEN Len(r.moves)
            ELSE PerftSum(r.board, r.moves, 1, depth)
    IN  IF depth = 0 THEN 1 ELSE Counted(generate_legal_moves(board))

----------------------------------------------------------------------------
(* The engine as a state machine: one Board object and the outcome of the  *)
(* last call made on it.                                                   *)

\* bounds of the exploration
MaxPlies == 2
MaxLinePlies == 8
MaxPerftDepth == 2

\* "7k/8/8/8/8/8/6P1/7K w - - 0 1"
PawnEndingFen ==
    <<"7", "k", "/", "8", "/", "8", "/", "8", "/", "8", "/", "8", "/", "6", "P", "1", "/", "7", "K", " ", "w", " ", "-", " ", "-", " ", "0", " ", "1">>
\* "7k/8/6K1/8/8/8/8/1R6 w - - 0 1": White mates in one with Rb8
MateInOneFen ==
    <<"7", "k", "/", "8", "/", "6", "K", "1", "/", "8", "/", "8", "/", "8", "/", "8", "/", "1", "R", "6", " ", "w", " ", "-", " ", "-", " ", "0", " ", "1">>
\* "4k3/8/8/8/8/8/P7/4K2R w K - 0 1"
CastlingFen ==
    <<"4", "k", "3", "/", "8", "/", "8", "/", "8", "/", "8", "/", "8", "/", "P", "7", "/", "4", "K", "2", "R", " ", "w", " ", "K", " ", "-", " ", "0", " ", "1">>

Fens == {PawnEndingFen, MateInOneFen, CastlingFen}

\* FEN strings that are not well formed
MalformedFens ==
    {\* "7k/8/8/8/8/8/8/7K w - -": four fields only
     <<"7", "k", "/", "8", "/", "8", "/", "8", "/", "8", "/", "8", "/", "8", "/", "7", "K", " ", "w", " ", "-", " ", "-">>,
     \* "7k/8/8/8/8/8/6X1/7K w - - 0 1": X is no piece letter
     <<"7", "k", "/", "8", "/", "8", "/", "8", "/", "8", "/", "8", "/", "6", "X", "1", "/", "7", "K", " ", "w", " ", "-", " ", "-", " ", "0", " ", "1">>,
     \* "7k/8/8/8/8/8/8/7K x - - 0 1": side to move x
     <<"7", "k", "/", "8", "/", "8", "/", "8", "/", "8", "/", "8", "/", "8", "/", "7", "K", " ", "x", " ", "-", " ", "-", " ", "0", " ", "1">>,
     \* "7k/8/8/8/8/8/8/7K w Z - 0 1": castling field Z
     <<"7", "k", "/", "8", "/", "8", "/", "8", "/", "8", "/", "8", "/", "8", "/", "7", "K", " ", "w", " ", "Z", " ", "-", " ", "0", " ", "1">>,
     \* "7k/8/8/8/8/8/8/6K w - - 0 1": the first rank describes seven files
     <<"7", "k", "/", "8", "/", "8", "/", "8", "/", "8", "/", "8", "/", "8", "/", "6", "K", " ", "w", " ", "-", " ", "-", " ", "0", " ", "1">>,
     \* "7k/8/8/8/8/8/8/7K w - - x 1": halfmove clock x
     <<"7", "k", "/", "8", "/", "8", "/", "8", "/", "8", "/", "8", "/", "8", "/", "7", "K", " ", "w", " ", "-", " ", "-", " ", "x", " ", "1">>}

\* moves no rules-compliant player may play in the starting position:
\* e3-e5 from an empty square, Black's e7-e6 with White to move, e2-e5, and
\* castling e1-g1 across the bishop and the knight
IllegalProbes ==
    {Move(20, 36, NONE, FALSE, FALSE), Move(52, 44, NONE, FALSE, FALSE),
     Move(12, 36, NONE, FALSE, FALSE), Move(4, 6, NONE, TRUE, FALSE)}

\* calls: the make_move and engine calls made since the position was set up
VARIABLES board, result, calls
vars == <<board, result, calls>>

NoResult ==
    [op |-> "none", before |-> StartingBoard, fen |-> <<>>, move |-> NoMove,
     ok |-> FALSE, moves |-> <<>>, raised |-> FALSE, count |-> 0, depth |-> 0,
     score |-> 0, stopped |-> FALSE, late |-> FALSE, nodes |-> 0,
     completed |-> [depth |-> 0, score |-> 0, best_move |-> NoMove,
                    best_score |-> 0]]

\* the object after a call: an exception leaves the fields as they were
\* when it was raised
Settled(b) == [b EXCEPT !.raised = FALSE]

Init ==
    /\ board = StartingBoard
    /\ result = NoResult
    /\ calls = 0

\* the last call set the position up or made a move and raised nothing: the
\* queries and the engine runs below are made on such a position
PositionChanged ==
    result.op \in {"none", "from_fen", "make_move"} /\ ~result.raised

\* board.from_fen(fen)
FromFen(fen) ==
    /\ calls = 0
    /\ calls' = 0
    /\ LET loaded == from_fen(board, fen)
       IN  /\ board' = Settled(loaded)
           /\ result' = [NoResult EXCEPT !.op = "from_fen", !.fen = fen,
                                         !.raised = loaded.raised]

\* a game played from the starting position with generated moves only: pawn
\* to g4, the f1 bishop and then the g1 knight leave the first rank, Black
\* answers with a6, b6 and c6, and White castles
LineMoves ==
    {Move(14, 30, NONE, FALSE, FALSE), Move(48, 40, NONE, FALSE, FALSE),
     Move(5, 21, NONE, FALSE, FALSE), Move(49, 41, NONE, FALSE, FALSE),
     Move(6, 22, NONE, FALSE, FALSE), Move(50, 42, NONE, FALSE, FALSE),
     Move(3, 6, NONE, TRUE, FALSE)}

\* the kings of the pawn ending step h1-g1, h8-g8 and back
ShuffleMoves ==
    {Move(7, 6, NONE, FALSE, FALSE), Move(63, 62, NONE, FALSE, FALSE),
     Move(6, 7, NONE, FALSE, FALSE), Move(62, 63, NONE, FALSE, FALSE)}

\* the moves offered to make_move: in the first MaxPlies calls the generated
\* ones, the illegal probes and a king's step of the shuffle; later the
\* generated moves of the line as long as the game from the starting position
\* has followed it, and the king's steps as long as the pawn ending has seen
\* nothing else
MoveInputs(b) ==
    LET g == generate_legal_moves(b)
        generated == {g.moves[i] : i \in 1..Len(g.moves)}
        steps == {move \in ShuffleMoves :
                     move.from_square \in b.pieces[b.to_move][KING]}
        followed(line) ==
            \A i \in 1..Len(b.move_history) : b.move_history[i] \in line
    IN  IF calls < MaxPlies THEN generated \cup IllegalProbes \cup steps
        ELSE IF Len(b.position_history) = Len(b.move_history)
             THEN (IF followed(LineMoves) THEN generated \cap LineMoves ELSE {})
             ELSE IF /\ b.position_history # <<>>
                     /\ b.position_history[1] = PawnEndingFen
                     /\ followed(ShuffleMoves)
             THEN steps
             ELSE {}

\* board.make_move(move)
MakeMove ==
    /\ calls < MaxLinePlies
    /\ calls' = calls + 1
    /\ \E move \in MoveInputs(board) :
           LET made == make_move(board, move)
           IN  /\ board' = Settled(made.board)
               /\ result' = [NoResult EXCEPT !.op = "make_move", !.before = board,
                                             !.move = move, !.ok = made.ok,
                                             !.raised = made.board.raised]

\* board.generate_legal_moves()
GenerateLegalMoves ==
    LET g == generate_legal_moves(board)
    IN  /\ PositionChanged
        /\ calls' = calls
        /\ board' = Settled(g.board)
        /\ result' = [NoResult EXCEPT !.op = "generate_legal_moves",
                                      !.before = board, !.moves = g.moves,
                                      !.raised = g.board.raised]

\* counting the move sequences of length depth, as test_board does at depth 1
PerftCount(depth) ==
    /\ PositionChanged
    /\ calls = 0
    /\ calls' = 0
    /\ board' = board
    /\ result' = [NoResult EXCEPT !.op = "perft", !.before = board,
                                  !.depth = depth, !.count = Perft(board, depth)]

NextBoard ==
    \/ \E fen \in Fens \cup MalformedFens : FromFen(fen)
    \/ MakeMove
    \/ GenerateLegalMoves
    \/ \E depth \in 1..MaxPerftDepth : PerftCount(depth)

SpecBoard == Init /\ [][NextBoard]_vars

\* bounds of the searches
MaxSearchPieces == 6
MaxSearchPlies == 0
MaxDepth == 1
MaxDeadline == 8

\* "2r1k3/1QP5/8/8/8/8/8/3R3K w - - 0 1"
ExchangeFen ==
    <<"2", "r", "1", "k", "3", "/", "1", "Q", "P", "5", "/", "8", "/", "8", "/", "8", "/", "8", "/", "8", "/", "3", "R", "3", "K", " ", "w", " ", "-", " ", "-", " ", "0", " ", "1">>
\* "1Nn5/2p5/7k/8/8/8/4K3/8 b - - 0 1"
RecaptureFen ==
    <<"1", "N", "n", "5", "/", "2", "p", "5", "/", "7", "k", "/", "8", "/", "8", "/", "8", "/", "4", "K", "3", "/", "8", " ", "b", " ", "-", " ", "-", " ", "0", " ", "1">>
\* "7k/5Q2/6K1/8/8/8/8/8 b - - 0 1": Black is stalemated
StalemateFen ==
    <<"7", "k", "/", "5", "Q", "2", "/", "6", "K", "1", "/", "8", "/", "8", "/", "8", "/", "8", "/", "8", " ", "b", " ", "-", " ", "-", " ", "0", " ", "1">>
\* "3r3k/8/8/3p4/8/8/8/3Q3K w - - 0 1": Qxd5 takes a pawn the rook defends
DefendedPawnFen ==
    <<"3", "r", "3", "k", "/", "8", "/", "8", "/", "3", "p", "4", "/", "8", "/", "8", "/", "8", "/", "3", "Q", "3", "K", " ", "w", " ", "-", " ", "-", " ", "0", " ", "1">>
\* "7k/8/8/3p4/4P3/8/8/7K w - - 0 1": exd5 takes an undefended pawn
LoosePawnFen ==
    <<"7", "k", "/", "8", "/", "8", "/", "3", "p", "4", "/", "4", "P", "3", "/", "8", "/", "8", "/", "7", "K", " ", "w", " ", "-", " ", "-", " ", "0", " ", "1">>

EngineFens ==
    {ExchangeFen, RecaptureFen, StalemateFen, DefendedPawnFen, LoosePawnFen,
     \* "4k3/6p1/7K/5pPP/8/8/8/8 w - f6 0 2": the pawn g5 may take f5 en passant
     <<"4", "k", "3", "/", "6", "p", "1", "/", "7", "K", "/", "5", "p", "P", "P", "/", "8", "/", "8", "/", "8", "/", "8", " ", "w", " ", "-", " ", "f", "6", " ", "0", " ", "2">>}

\* the positions the engine is run on
SmallPosition ==
    /\ PositionChanged
    /\ calls <= MaxSearchPlies \/ calls = MaxLinePlies
    /\ Cardinality(board.all_occupancy) <= MaxSearchPieces

\* the polls at which the time limit can run out: NONE for never
Deadlines == {NONE, 1, MaxDeadline}

\* NegascoutSearch(evaluator).search(board, depth, time_limit)
Search(depth, expire_at) ==
    LET Returned(found) ==
            /\ board' = Settled(found.session.board)
            /\ result' = [NoResult EXCEPT
                              !.op = "search", !.before = board, !.depth = depth,
                              !.move = found.best_move, !.score = found.best_score,
                              !.stopped = found.session.should_stop,
                              !.completed = found.last_completed,
                              !.raised = found.session.board.raised]
    IN  /\ SmallPosition
        /\ calls' = calls + 1
        /\ Returned(search(board, NewMoveOrderer, depth, expire_at))

\* QuiescenceSearch(evaluator, MoveOrderer()).search(board, -999999, 999999),
\* as negascout calls it at a leaf; expire_at = 0: the deadline has passed by
\* the time the quiescence node is entered
Quiescence(expire_at) ==
    LET Returned(session, found) ==
            /\ board' = Settled(found.session.board)
            /\ result' = [NoResult EXCEPT
                              !.op = "quiescence", !.before = board,
                              !.score = found.score,
                              !.late = DeadlinePassed(session),
                              !.nodes = found.session.quiescence_nodes,
                              !.raised = found.session.board.raised]
        Entered(session) ==
            Returned(session, quiescence_search(session, 0 - INFINITY, INFINITY, 0))
    IN  /\ SmallPosition
        /\ calls' = calls + 1
        /\ Entered([board |-> board, orderer |-> NewMoveOrderer,
                    should_stop |-> FALSE, polls |-> 0, expire_at |-> expire_at,
                    nodes_searched |-> 0, cutoffs |-> 0, quiescence_nodes |-> 0])

\* StaticExchangeEvaluator().evaluate(board, move) for a piece of the side to
\* move and a target square the opponent occupies
SeeEvaluate ==
    /\ SmallPosition
    /\ calls' = calls
    /\ \E from_square \in board.color_occupancy[board.to_move] :
       \E to_square \in board.color_occupancy[Opp(board.to_move)] :
           LET Returned(move, see) ==
                   /\ board' = board
                   /\ result' = [NoResult EXCEPT
                                     !.op = "see_evaluate", !.before = board,
                                     !.move = move, !.score = see.value,
                                     !.raised = see.raised]
               Evaluated(move) == Returned(move, see_evaluate(board, move))
           IN  Evaluated(Move(from_square, to_square, NONE, FALSE, FALSE))

\* MoveOrderer().order_moves(board, board.generate_legal_moves(), 0), as the
\* first node of a search orders its moves
OrderMoves ==
    LET Returned(moves, ordered) ==
            /\ board' = board
            /\ result' = [NoResult EXCEPT
                              !.op = "order_moves", !.before = board,
                              !.moves = ordered.moves, !.raised = ordered.raised]
        Generated(g) ==
            /\ ~g.board.raised
            /\ Returned(g.moves, order_moves(NewMoveOrderer, board, g.moves, 0))
    IN  /\ SmallPosition
        /\ calls' = calls
        /\ Generated(generate_legal_moves(board))

\* MoveOrderer().update_killer_moves(move, 0, board), the call negascout makes
\* when a generated move causes a beta cutoff
UpdateKillerMoves ==
    LET Returned(move, orderer) ==
            /\ board' = board
            /\ result' = [NoResult EXCEPT
                              !.op = "update_killer_moves", !.before = board,
                              !.move = move, !.moves = orderer.killer_moves[0]]
        Generated(g) ==
            /\ ~g.board.raised
            /\ \E i \in 1..Len(g.moves) :
                   /\ g.moves[i].to_square >= 0
                   /\ Returned(g.moves[i],
                               update_killer_moves(NewMoveOrderer, g.moves[i], 0, board))
    IN  /\ SmallPosition
        /\ calls' = calls
        /\ Generated(generate_legal_moves(board))

NextEngine ==
    \/ \E fen \in EngineFens : FromFen(fen)
    \/ \E depth \in 1..MaxDepth : \E expire_at \in Deadlines : Search(depth, expire_at)
    \/ \E expire_at \in {NONE, 0} : Quiescence(expire_at)
    \/ SeeEvaluate
    \/ OrderMoves
    \/ UpdateKillerMoves

Next == NextBoard \/ NextEngine

Spec == Init /\ [][Next]_vars
----------------------------------------------------------------------------
(* Properties                                                              *)

\* the eight fields of a Position that _save_state covers
PositionOf(b) == save_state(b)

\* C1: from the standard starting position the numbers of legal move
\* sequences of length 1, 2, 3 and 4 are 20, 400, 8902 and 197281
C1_PerftCounts ==
    (result.op = "perft" /\ result.before = StartingBoard)
        => result.count = <<20, 400, 8902, 197281>>[result.depth]

\* C2: generate_legal_moves returns exactly the moves of a rules-compliant
\* player: every returned move starts on a square holding a piece of the side
\* to move, and no legal move is missing (h2-h3 in the starting position)
C2_LegalMovesAreTheRulesMoves ==
    (result.op = "generate_legal_moves" /\ ~result.raised)
        => /\ \A i \in 1..Len(result.moves) :
                  result.moves[i].from_square
                      \in result.before.color_occupancy[result.before.to_move]
           /\ PositionOf(result.before) = PositionOf(StartingBoard)
                  => \E i \in 1..Len(result.moves) :
                         MoveEq(result.moves[i], Move(15, 23, NONE, FALSE, FALSE))

\* C3: make_move of a move that is not legal (here: from an empty square or
\* of an opponent's piece) returns False, raises nothing and leaves every
\* field of the Position, the two histories included, unchanged
C3_IllegalMoveIsRejected ==
    (/\ result.op = "make_move"
     /\ result.move.from_square
            \notin result.before.color_occupancy[result.before.to_move])
        => (~result.ok /\ ~result.raised /\ board = result.before)

\* C4: after NegascoutSearch.search returns, whether it completed every depth
\* or was cut short by the deadline, every field of the Position, move_history
\* and position_history included, is what it was before the call
C4_SearchLeavesPositionUnchanged ==
    (result.op = "search" /\ ~result.raised) => board = result.before

\* C5: if the root position has a legal move, search returns one of the
\* legal moves of the root position and never None, however early the
\* deadline passes
C5_SearchReturnsALegalMove ==
    (result.op = "search" /\ ~result.raised)
        => LET moves == generate_legal_moves(result.before).moves
           IN  moves # <<>>
                   => \E i \in 1..Len(moves) : MoveEq(moves[i], result.move)

\* C6: when the deadline expires during a depth, the best move and score
\* returned are those recorded at the end of the last completed depth
C6_InterruptedDepthChangesNothing ==
    (result.op = "search" /\ ~result.raised /\ result.stopped)
        => /\ result.move = result.completed.best_move
           /\ result.score = result.completed.best_score

RECURSIVE Minimax(_, _, _)
\* the reference of C7 and C8: plain minimax over the tree negascout walks
\* (the moves of generate_legal_moves, the same mate, stalemate and draw
\* scores), a leaf being worth what the quiescence search returns for it
\* with the full window
Minimax(b, depth, ply) ==
    IF depth <= 0
    THEN quiescence_search(
             [board |-> b, orderer |-> NewMoveOrderer, should_stop |-> FALSE,
              polls |-> 0, expire_at |-> NONE, nodes_searched |-> 0, cutoffs |-> 0,
              quiescence_nodes |-> 0],
             0 - INFINITY, INFINITY, 0).score
    ELSE LET moves == generate_legal_moves(b).moves
         IN  IF moves = <<>>
             THEN (IF is_in_check(b, b.to_move) THEN ply - MATE ELSE 0)
             ELSE IF is_draw(b) THEN 0
             ELSE Max({0 - Minimax(make_move_internal(b, moves[i]), depth - 1, ply + 1) :
                          i \in 1..Len(moves)})

\* C7: for a completed depth d the best move returned is a root move whose
\* depth-d minimax value is the maximum over all root moves and is the score
\* returned with it
C7_BestMoveIsAMinimaxBestMove ==
    (result.op = "search" /\ ~result.raised /\ ~result.stopped
     /\ result.move # NoMove)
        => LET moves == generate_legal_moves(result.before).moves
               value(move) ==
                   0 - Minimax(make_move_internal(result.before, move),
                               result.depth - 1, 1)
           IN  /\ \E i \in 1..Len(moves) : MoveEq(moves[i], result.move)
               /\ \A i \in 1..Len(moves) : value(moves[i]) <= value(result.move)
               /\ result.score = value(result.move)

\* C8: the score negascout returns at a PV root with the full window
\* (-999999, 999999) is the score plain minimax returns for the same tree
\* with the same leaf evaluation
C8_NegascoutEqualsMinimax ==
    (result.op = "search" /\ ~result.raised /\ result.completed.depth >= 1)
        => result.completed.score
               = Minimax(result.before, result.completed.depth, 0)

\* C9: for a root position in which the side to move mates in one (Rb1-b8),
\* a search that completes returns the mating move and the score 20000 - 1
C9_MateInOneIsFound ==
    (/\ result.op = "search"
     /\ ~result.raised
     /\ ~result.stopped
     /\ PositionOf(result.before) = PositionOf(from_fen(StartingBoard, MateInOneFen)))
        => /\ MoveEq(result.move, Move(1, 57, NONE, FALSE, FALSE))
           /\ result.score = MATE - 1

\* C10: for every move returned by generate_legal_moves, _save_state,
\* _make_move_internal and _restore_state in turn yield exactly the pre-move
\* state, and generate_legal_moves leaves the Position unchanged
C10_SaveMakeRestoreIsExact ==
    (result.op = "generate_legal_moves" /\ ~result.raised)
        => /\ board = result.before
           /\ \A i \in 1..Len(result.moves) :
                  LET made == make_move_internal(result.before, result.moves[i])
                  IN  restore_state(made, save_state(result.before)) = result.before

\* a generated move that sets the en-passant square has been applied and undone
C10_Witness ==
    /\ result.op = "generate_legal_moves"
    /\ ~result.raised
    /\ \E i \in 1..Len(result.moves) :
           make_move_internal(result.before, result.moves[i]).en_passant_square # NONE

\* C11: for every position p reached from the starting position
\* from_fen(to_fen(p)) reproduces p: piece bitboards, occupancies, side to
\* move, castling rights, en-passant square and both clocks
C11_FenRoundTrip ==
    (result.op = "make_move" /\ result.ok)
        => PositionOf(from_fen(board, to_fen(board))) = PositionOf(board)

\* C19: from_fen applied to a malformed FEN string (too few fields, an unknown
\* piece letter, a side to move other than w or b, invalid castling letters,
\* a rank that does not describe eight files, a non-numeric clock) fails with
\* an error instead of returning with a position set up
C19_MalformedFenIsRejected ==
    (result.op = "from_fen" /\ result.fen \in MalformedFens) => result.raised

\* C12: after any sequence of setup_starting_position, from_fen, make_move,
\* generate_legal_moves and search calls each colour occupancy is the OR of
\* that colour's six piece bitboards and the all-occupancy is the OR of the
\* two colour occupancies
C12_OccupancyIsUnionOfPieces ==
    /\ \A color \in Colors :
           board.color_occupancy[color]
               = UNION {board.pieces[color][piece_type] : piece_type \in 0..5}
    /\ board.all_occupancy
           = board.color_occupancy[WHITE] \cup board.color_occupancy[BLACK]

\* C13: in every position reached from the starting position by make_move
\* calls that return True no square is set in more than one of the twelve
\* piece bitboards
C13_NoSquareHoldsTwoPieces ==
    (result.op = "make_move" /\ result.ok)
        => \A square \in 0..63 :
               Cardinality({<<color, piece_type>> \in Colors \X (0..5) :
                               square \in board.pieces[color][piece_type]}) <= 1

\* C14: after every make_move call that returns True the side to move is the
\* opposite of the side to move before the call
C14_AppliedMoveFlipsSideToMove ==
    (result.op = "make_move" /\ result.ok)
        => board.to_move = Opp(result.before.to_move)

\* C15: across make_move calls a castling right that is False never becomes
\* True again
C15_CastlingRightsNeverReturn ==
    [][result'.op = "make_move"
           => \A right \in DOMAIN board.castling_rights :
                  board'.castling_rights[right] => board.castling_rights[right]]_vars

\* a castling right lost by one applied move is still lost after the next
C15_Witness ==
    /\ result.op = "make_move"
    /\ result.ok
    /\ Len(board.move_history) = 2
    /\ Len(board.position_history) = 2
    /\ \E right \in DOMAIN board.castling_rights :
           /\ ~result.before.castling_rights[right]
           /\ ~board.castling_rights[right]

\* C16: after every make_move that returns True the en-passant square is the
\* square the pawn passed over if the move took a pawn of the side to move
\* two ranks forward from its starting rank, and None after every other
\* applied move
C16_EnPassantSquareAfterMove ==
    LET before == result.before
        move == result.move
        is_double_advance ==
            /\ move.from_square \in before.pieces[before.to_move][PAWN]
            /\ RankOf(move.from_square) = (IF before.to_move = WHITE THEN 1 ELSE 6)
            /\ move.to_square
                   = move.from_square + (IF before.to_move = WHITE THEN 16 ELSE 0 - 16)
    IN  (result.op = "make_move" /\ result.ok)
            => board.en_passant_square =
                   (IF is_double_advance
                    THEN (move.from_square + move.to_square) \div 2 ELSE NONE)

\* C17: StaticExchangeEvaluator.evaluate returns -800 for the queen taking a
\* pawn that a rook defends (Qd1xd5) and +100 for a pawn taking an undefended
\* pawn (e4xd5)
C17_ExchangeValues ==
    result.op = "see_evaluate"
        => /\ (/\ PositionOf(result.before)
                      = PositionOf(from_fen(StartingBoard, DefendedPawnFen))
               /\ MoveEq(result.move, Move(3, 35, NONE, FALSE, FALSE)))
                  => (~result.raised /\ result.score = 0 - 800)
           /\ (/\ PositionOf(result.before)
                      = PositionOf(from_fen(StartingBoard, LoosePawnFen))
               /\ MoveEq(result.move, Move(28, 35, NONE, FALSE, FALSE)))
                  => (~result.raised /\ result.score = 100)

\* C18: when the root position has no legal move (here: Black is stalemated)
\* search returns None as best move and does not raise
C18_NoLegalMoveGivesNone ==
    (/\ result.op = "search"
     /\ PositionOf(result.before) = PositionOf(from_fen(StartingBoard, StalemateFen)))
        => (result.move = NoMove /\ ~result.raised)

\* C20: QuiescenceSearch.search returns with the Position (piece bitboards,
\* side to move, castling rights, en-passant square, clocks) equal to what it
\* was on entry
C20_QuiescenceRestoresPosition ==
    (result.op = "quiescence" /\ ~result.raised)
        => PositionOf(board) = PositionOf(result.before)

\* C21: is_square_attacked(square, by_color) is True exactly when a by_color
\* pawn, knight or king attacks the square per the attack tables, or the first
\* occupied square of a rank or file ray from the square holds a by_color rook
\* or queen, or the first occupied square of a diagonal ray holds a by_color
\* bishop or queen
C21_SquareAttackedExactly ==
    \A square \in 0..63 : \A by_color \in Colors :
        LET mine == board.pieces[by_color]
            reached(rays) ==
                UNION {RayWalk(rays[square][d], 1, board.all_occupancy) : d \in 1..4}
                    \cap board.all_occupancy
        IN  is_square_attacked(board, square, by_color)
                <=> \/ pawn_attacks[Opp(by_color) + 1][square] \cap mine[PAWN] # {}
                    \/ knight_attacks[square] \cap mine[KNIGHT] # {}
                    \/ king_attacks[square] \cap mine[KING] # {}
                    \/ reached(straight_rays) \cap (mine[ROOK] \cup mine[QUEEN]) # {}
                    \/ reached(diagonal_rays) \cap (mine[BISHOP] \cup mine[QUEEN]) # {}

\* C23: pop_lsb(b) of a non-zero bitboard b returns b without its least
\* significant set bit together with the index of that bit, so that the loop
\* of generate_pseudo_legal_moves over a piece bitboard visits exactly the
\* squares whose bits are set; pop_lsb(0) returns (0, -1)
C23_PopLsbVisitsTheSetSquares ==
    result.op = "generate_legal_moves"
        => /\ pop_lsb({}) = <<{}, 0 - 1>>
           /\ \A color \in Colors : \A piece_type \in PAWN..KING :
                  LET bitboard == result.before.pieces[color][piece_type]
                      visited == PopAll(bitboard)
                  IN  /\ bitboard # {}
                          => pop_lsb(bitboard)
                                 = <<bitboard \ {Min(bitboard)}, Min(bitboard)>>
                      /\ {visited[i] : i \in 1..Len(visited)} = bitboard

\* C22: every castling move emitted by generate_pseudo_legal_moves starts on
\* the square of the side to move's king, is emitted only when the matching
\* right is held, the squares between king and rook are empty and the king's
\* current, transit and destination squares are not attacked, and applying it
\* moves that king and the matching rook as a pair
C22_CastlingMovesAreSound ==
    result.op = "generate_legal_moves"
        => LET b == result.before
               color == b.to_move
               base == IF color = WHITE THEN 0 ELSE 56
               moves == generate_pseudo_legal_moves(b)
               sound(move) ==
                   LET is_kingside == move.to_square = base + 6
                       right == IF color = WHITE
                                THEN (IF is_kingside THEN b.castling_rights.K
                                      ELSE b.castling_rights.Q)
                                ELSE (IF is_kingside THEN b.castling_rights.k
                                      ELSE b.castling_rights.q)
                       between == IF is_kingside THEN {base + 5, base + 6}
                                  ELSE {base + 1, base + 2, base + 3}
                       king_path == IF is_kingside THEN {base + 4, base + 5, base + 6}
                                    ELSE {base + 4, base + 3, base + 2}
                       rook_from == IF is_kingside THEN base + 7 ELSE base
                       rook_to == IF is_kingside THEN base + 5 ELSE base + 3
                       after == handle_castling(b, move)
                   IN  /\ b.pieces[color][KING] = {move.from_square}
                       /\ move.to_square \in {base + 6, base + 2}
                       /\ right
                       /\ b.all_occupancy \cap between = {}
                       /\ \A square \in king_path :
                              ~is_square_attacked(b, square, Opp(color))
                       /\ after.pieces[color][KING] = {move.to_square}
                       /\ after.pieces[color][ROOK]
                              = (b.pieces[color][ROOK] \ {rook_from}) \cup {rook_to}
                       /\ rook_from \in b.pieces[color][ROOK]
           IN  \A i \in 1..Len(moves) : moves[i].is_castling => sound(moves[i])

RECURSIVE PlayedFromStart(_, _, _)
\* the board after make_move of moves[i], moves[i+1], ... on board b, provided
\* each of them is returned by generate_legal_moves in the position it is
\* played in and applied by make_move
PlayedFromStart(b, moves, i) ==
    IF i > Len(moves) THEN [ok |-> TRUE, board |-> b]
    ELSE LET generated == generate_legal_moves(b).moves
             made == make_move(b, moves[i])
         IN  IF made.ok /\ \E j \in 1..Len(generated) : generated[j] = moves[i]
             THEN PlayedFromStart(Settled(made.board), moves, i + 1)
             ELSE [ok |-> FALSE, board |-> b]

\* C29: every position reached from the starting position by applying,
\* through make_move, moves returned by generate_legal_moves holds exactly one
\* white king and exactly one black king
C29_OneKingEach ==
    LET played == PlayedFromStart(StartingBoard, board.move_history, 1)
    IN  (played.ok /\ played.board = board)
            => \A color \in Colors : Cardinality(board.pieces[color][KING]) = 1

\* C30: in every position reached from the starting position by applying,
\* through make_move, moves returned by generate_legal_moves, a castling
\* right that is held implies that the side's king stands on e1 or e8 and the
\* rook of that wing on its corner
C30_CastlingRightMeansHomeSquares ==
    LET played == PlayedFromStart(StartingBoard, board.move_history, 1)
        at_home(color, king_square, rook_square) ==
            /\ board.pieces[color][KING] = {king_square}
            /\ rook_square \in board.pieces[color][ROOK]
    IN  (played.ok /\ played.board = board /\ board.move_history # <<>>)
            => /\ board.castling_rights.K => at_home(WHITE, 4, 7)
               /\ board.castling_rights.Q => at_home(WHITE, 4, 0)
               /\ board.castling_rights.k => at_home(BLACK, 60, 63)
               /\ board.castling_rights.q => at_home(BLACK, 60, 56)

\* C24: negascout scores a node 0 when the side to move has a legal move and
\* the node's position (placement, side to move, castling rights, en-passant
\* square) has been recorded at least twice before in the position history
C24_ThreefoldRepetitionScoresZero ==
    LET b == result.before
        position(fen) == SubSeq(SplitWords(fen), 1, 4)
        earlier == {i \in 1..(Len(b.position_history) - 1) :
                       position(b.position_history[i]) = position(to_fen(b))}
    IN  (/\ result.op = "search"
         /\ ~result.raised
         /\ result.completed.depth >= 1
         /\ generate_legal_moves(b).moves # <<>>
         /\ Cardinality(earlier) >= 2)
            => result.completed.score = 0

\* C25: once the deadline has passed, a quiescence node entered afterwards
\* returns without generating, making or searching any move: it enters no
\* further node and leaves the position as it found it
C25_LateQuiescenceNodeReturnsAtOnce ==
    (result.op = "quiescence" /\ ~result.raised /\ result.late)
        => result.nodes <= 1 /\ PositionOf(board) = PositionOf(result.before)

\* C26: order_moves returns the moves in descending priority class: captures
\* with SEE >= 0 come before promotions, promotions before the killer moves
\* of the ply, killer moves before the other quiet moves; no move of a lower
\* class stands before a move of a higher class (the moves looked at are
\* those of a piece of the side to move; captures with SEE < 0 are left out)
C26_MovesAreOrderedByClass ==
    LET b == result.before
        moves == result.moves
        moved(move) == get_piece_at(b, move.from_square)
        is_capture(move) == get_piece_at(b, move.to_square) # NoPiece
        class(move) ==
            IF is_capture(move)
            THEN (IF see_evaluate(b, move).value >= 0 THEN 1 ELSE 5)
            ELSE IF move.promotion # NONE THEN 2
            ELSE IF \E i \in 1..2 : moves_equal(move, NewMoveOrderer.killer_moves[0][i])
            THEN 3
            ELSE 4
        ranked == {i \in 1..Len(moves) :
                      /\ moved(moves[i]) # NoPiece
                      /\ moved(moves[i]).color = b.to_move
                      /\ class(moves[i]) # 5}
    IN  (result.op = "order_moves" /\ ~result.raised)
            => \A i \in ranked : \A j \in ranked :
                   i < j => class(moves[i]) <= class(moves[j])

\* C27: a killer slot never holds a capturing move: a move stored in
\* killer_moves[ply] at a beta cutoff took nothing in the position where it
\* caused the cutoff, neither on its target square nor en passant
C27_KillerIsNeverACapture ==
    result.op = "update_killer_moves"
        => \A i \in 1..Len(result.moves) :
               result.moves[i] # NoMove
                   => /\ get_piece_at(result.before, result.moves[i].to_square) = NoPiece
                      /\ ~result.moves[i].is_en_passant

\* C28: at a position where generate_quiescence_moves finds no forcing move,
\* QuiescenceSearch.search called with the full window returns exactly
\* Evaluator.evaluate(position), the score from the side to move's
\* perspective, whether White or Black is to move
C28_QuietPositionReturnsTheEvaluation ==
    (/\ result.op = "quiescence"
     /\ ~result.raised
     /\ ~result.before.raised
     /\ generate_quiescence_moves(result.before).moves = <<>>
     /\ ~generate_quiescence_moves(result.before).board.raised)
        => result.score = evaluate(result.before)
====
